---- MODULE Spec2Model ----
(***************************************************************************)
(* BeeSMART honey dosing controller (honeyDosing_v3.ino): the dosing state *)
(* machine, the command handler and the valve output path of the control   *)
(* loop.  One control tick is two steps: the HTTP server hands at most one *)
(* command to handleApiCommand (server.handleClient()), then the rest of   *)
(* loop() runs (weight, calibration switch, dosing switch, PID compute,     *)
(* servo write).                                                           *)
(*                                                                         *)
(* Units: weights in grams; output and servoTestOutput in tenths (0..10    *)
(* stands for 0.0..1.0); servo-test time in control ticks; tare time in    *)
(* milliseconds; PID integral coefficient and integral term in millionths. *)
(***************************************************************************)
EXTENDS Integers, Sequences, FiniteSets, TLC

VARIABLES
    pc,                 \* "net": before server.handleClient(); "body": before the rest of loop()
    stateMachine,       \* main dosing state, 1..4
    running,            \* ArduPID mode is ON
    pidHistory,         \* the PID holds accumulated integral/derivative terms
    output,             \* PID output, tenths
    autoState,          \* automatic mode enabled
    cnt,                \* glass detection counter
    stopConditionCount, \* counter for the stable stop condition
    actualWeight,       \* stable weight of the last tick
    adjustedWeight,     \* actualWeight minus glass, floored at 0
    glasWeight,         \* recorded glass weight
    setpoint,           \* target weight locked at START_FILL
    desiredAmount,      \* configured target weight
    maxWeight,          \* configured maximum dosing amount
    minGlassWeight,     \* glass detection threshold
    stopHysteresis,     \* stop this many grams before the target
    servoMin,           \* actuator minimum position
    servoMax,           \* actuator maximum position
    servoPos,           \* position last written to the servo
    servoTestMode,      \* servo test active
    servoTestOutput,    \* servo test output, tenths
    servoTestElapsed,   \* ticks since servoTestStartTime
    gainSelector,       \* active viscosity preset
    kP, Ti, kD,         \* gains of the four presets
    pidCoef,            \* coefficients handed to myController.begin()
    pidIntegral,        \* integral term of the PID
    calStateMachine,    \* calibration state, 0..4
    calFile,            \* /cal.txt: {} when absent, {f} when it holds factor f
    calFactor,          \* calibration factor loaded at boot
    scaleFactor,        \* SCALE of the HX711 driver
    calSum,             \* sum for calibration averaging
    calCount,           \* sample count for calibration
    calAveraging,       \* calibration averaging in progress
    calWeight,          \* calibration reference weight
    reading,            \* calibration reading buffer
    tareInProgress,     \* tare operation in progress
    tareElapsed,        \* millis() - tareStartTime at the last check
    weightSamples,      \* circular buffer of the weight sampler
    sampleIndex,        \* write cursor of the buffer
    samplesInitialized, \* the buffer has been filled once
    weightSum,          \* running sum of the buffer
    setpointPI,         \* normalized setpoint of the PID, thousandths
    settingsChanged,    \* a setting was changed and is not saved yet
    sinceChange,        \* millis() - lastSettingChange, up to AUTOSAVE_DELAY
    totalDispensingCycles,\* completed doses recorded since the statistics were reset
    historyIndex,       \* slot of dispensingHistory that the next record goes to
    historyCount,       \* records held in dispensingHistory
    lastCmd,            \* history: command consumed by handleClient in this tick, "none" otherwise
    lastPid,            \* history: payload of that command when it is a setPID
    prevSM,             \* history: stateMachine before the last step
    consec,             \* history: consecutive ticks in DETECT_GLASS with weight >= threshold
    condRun,            \* history: consecutive ticks in FILLING with the stop condition true
    sinceStop,          \* history: a stop was consumed and no start/setAuto/servoTest since
    prevCal,            \* history: calStateMachine before the last step
    calFileAtStart,     \* history: /cal.txt when the calibration run began
    taringMs,           \* history: ms since the first tick in TARING, -1 before it
    tareRun,            \* history: scale.tare() calls of the calibration run
    sampSeen,           \* history: samples taken since SAMPLING was entered
    sampSum,            \* history: exact sum of those samples
    smpHist,            \* history: the last WEIGHT_SAMPLES raw readings of the sampler
    smpCalls,           \* history: sampler calls since initialisation
    smpReturn,          \* history: value returned by the last sampler call
    quietMs,            \* history: ms since the last command that marked the settings changed
    burstWrites,        \* history: auto-save writes since that command
    burstFlushed        \* history: a command saved the settings at once since that command

progVars == <<stateMachine, running, pidHistory, output, autoState, cnt,
              stopConditionCount, actualWeight, adjustedWeight, glasWeight,
              setpoint, desiredAmount, maxWeight, minGlassWeight,
              stopHysteresis, servoMin, servoMax, servoPos, servoTestMode,
              servoTestOutput, servoTestElapsed, gainSelector, kP, Ti, kD,
              pidCoef, pidIntegral, calStateMachine, calFile, calFactor,
              scaleFactor, calSum, calCount, calAveraging, calWeight, reading,
              tareInProgress, tareElapsed, weightSamples, sampleIndex,
              samplesInitialized, weightSum,
      setpointPI,
      settingsChanged,
      sinceChange,
      totalDispensingCycles,
      historyIndex,
      historyCount>>

dosingHist == <<lastCmd, lastPid, prevSM, consec, condRun, sinceStop>>

calHist == <<prevCal, calFileAtStart, taringMs, tareRun, sampSeen, sampSum>>

samplerHist == <<smpHist, smpCalls, smpReturn>>

saveHist == <<quietMs, burstWrites, burstFlushed>>

histVars == <<dosingHist, calHist, samplerHist, saveHist>>

vars == <<pc, progVars, histVars>>

-----------------------------------------------------------------------------
(* Program constants *)

STOP_CONFIRM_CYCLES == 3
GLASS_CONFIRM_COUNT == 10
minWeight == 50
OutLow == 1
OutHigh == 10
FactoryKP == <<8, 8, 10>>
FactoryTi == <<10, 7, 0>>
FactoryKD == <<5, 2, 1>>
WEIGHT_SAMPLES == 5
calSamples == 100
TARE_DELAY_MS == 1000
AUTOSAVE_DELAY == 5000
HISTORY_SIZE == 10
STATS_SAVE_EVERY == 20
looptime == 20

(* Bounds of the model *)

MaxCycles == 11          \* completed doses followed by the statistics specification
ServoTestTicks == 1     \* the 3000 ms servo-test timeout, in control ticks
MaxSamplerCalls == 7    \* sampler calls followed after initialisation

(* Inputs *)

Weights == {0, 12, 302, 308}
AmountPayloads == {0, 300}
MaxWeightPayloads == {1000}
ViscosityPayloads == {2}
AllViscosities == 0..3
\* actuator limits the operator sets: in order, and with min above max
ServoMinPayloads == {1, 20}
ServoMaxPayloads == {10, 180}
\* stable weights of a fill, with the lowest value an int16_t holds
FillWeights == {-32768, 0, 12, 308}
\* a glass threshold below zero, and stable weights on both sides of it
MinGlassPayloads == {-10}
ThresholdWeights == {-32768, -7, 12}
\* ms from one tick to the next: two of the long ones and a short one
\* make AUTOSAVE_DELAY exactly
QuietTickMs == {looptime, 2490}
\* an empty scale, a glass, and the glass with a full dose in it
DoseWeights == {0, 12, 308}
\* the user-defined preset and a factory preset
AbortViscosities == {0, 2}
\* ticks half a second apart, so that the tare delay passes in a few ticks
SlowTickMs == {500}
\* a setPID payload with only the key kp
KpPayloads == [kp : {{9}}, ti : {{}}, kd : {{}}]
\* an empty scale and a glass on it
GlassWeights == {0, 12}
\* setViscosity payloads: the four presets and an integer that names none
AnyViscosities == AllViscosities \cup {7}
\* setpointPI - input in thousandths, input being adjustedWeight / setpoint:
\* 1.0 with nothing dosed, 0 at the target, -1.0 at twice the target
PidErrors == {0 - 1000, 0, 1000}
\* a setPID payload: each of the keys kp, ti, kd is absent ({}) or has a value
PidPayloads ==
    [kp : {{}, {9}}, ti : {{}, {0}, {5}}, kd : {{}, {1}}]
\* no setPID payload
NoPayload == [kp |-> {}, ti |-> {}, kd |-> {}]
PosMin == 0
PosMax == 1
PosOther == 2
NoFire == 0 - 1
PidResults == {NoFire, OutLow, OutHigh}
RawSamples == {25249, 25250}
SteadySamples == {25250}
CalWeightPayloads == {0, 250}
TickMs == {looptime, 500}
DivZeroOutcomes == {"trap", "allOnes"}
SamplerReadings == {0 - 32768, 0 - 7, 4, 32767}
NoCalFile == {}
StoredCalFile == {100}

Max(a, b) == IF a >= b THEN a ELSE b
Min(a, b) == IF a <= b THEN a ELSE b
ToInt16(x) == ((x + 32768) % 65536) - 32768
ToUint16(x) == x % 65536
ToUint8(x) == x % 256
Abs(x) == IF x < 0 THEN 0 - x ELSE x

\* C integer division: the quotient is truncated toward zero
TruncDiv(a, b) ==
    LET q == Abs(a) \div Abs(b)
    IN  IF (a < 0) # (b < 0) THEN 0 - q ELSE q

RECURSIVE SumSeq(_)
SumSeq(q) == IF q = <<>> THEN 0 ELSE Head(q) + SumSeq(Tail(q))

(* IEEE doubles as far as the PID coefficients need them: a finite value  *)
(* in millionths, an infinity with its sign, or NaN                        *)
Fin(v) == [k |-> "fin", v |-> v]
PosInf == [k |-> "inf", v |-> 1]
NegInf == [k |-> "inf", v |-> 0 - 1]
NaN == [k |-> "nan", v |-> 0]
\* a / b of two doubles holding integers, in thousandths
FDiv(a, b) ==
    IF b = 0 THEN (IF a = 0 THEN NaN ELSE IF a > 0 THEN PosInf ELSE NegInf)
    ELSE Fin(TruncDiv(a * 1000, b))
\* the unspecified value of a read outside an array
Garbage == [k |-> "garbage", v |-> 0]

-----------------------------------------------------------------------------
(* The program state as one record, so that handlers compose sequentially *)

Cur ==
    [stateMachine |-> stateMachine, running |-> running, pidHistory |-> pidHistory,
     output |-> output, autoState |-> autoState, cnt |-> cnt,
     stopConditionCount |-> stopConditionCount, actualWeight |-> actualWeight,
     adjustedWeight |-> adjustedWeight, glasWeight |-> glasWeight,
     setpoint |-> setpoint, desiredAmount |-> desiredAmount, maxWeight |-> maxWeight,
     minGlassWeight |-> minGlassWeight, stopHysteresis |-> stopHysteresis,
     servoMin |-> servoMin, servoMax |-> servoMax, servoPos |-> servoPos,
     servoTestMode |-> servoTestMode, servoTestOutput |-> servoTestOutput,
     servoTestElapsed |-> servoTestElapsed, gainSelector |-> gainSelector,
     kP |-> kP, Ti |-> Ti, kD |-> kD,
     pidCoef |-> pidCoef, pidIntegral |-> pidIntegral,
     calStateMachine |-> calStateMachine, calFile |-> calFile,
     calFactor |-> calFactor, scaleFactor |-> scaleFactor, calSum |-> calSum,
     calCount |-> calCount, calAveraging |-> calAveraging, calWeight |-> calWeight,
     reading |-> reading, tareInProgress |-> tareInProgress,
     tareElapsed |-> tareElapsed, weightSamples |-> weightSamples,
     sampleIndex |-> sampleIndex, samplesInitialized |-> samplesInitialized,
     weightSum |-> weightSum,
     setpointPI |-> setpointPI,
     settingsChanged |-> settingsChanged,
     sinceChange |-> sinceChange,
     totalDispensingCycles |-> totalDispensingCycles,
     historyIndex |-> historyIndex,
     historyCount |-> historyCount]

Apply(s) ==
    /\ stateMachine' = s.stateMachine
    /\ running' = s.running
    /\ pidHistory' = s.pidHistory
    /\ output' = s.output
    /\ autoState' = s.autoState
    /\ cnt' = s.cnt
    /\ stopConditionCount' = s.stopConditionCount
    /\ actualWeight' = s.actualWeight
    /\ adjustedWeight' = s.adjustedWeight
    /\ glasWeight' = s.glasWeight
    /\ setpoint' = s.setpoint
    /\ desiredAmount' = s.desiredAmount
    /\ maxWeight' = s.maxWeight
    /\ minGlassWeight' = s.minGlassWeight
    /\ stopHysteresis' = s.stopHysteresis
    /\ servoMin' = s.servoMin
    /\ servoMax' = s.servoMax
    /\ servoPos' = s.servoPos
    /\ servoTestMode' = s.servoTestMode
    /\ servoTestOutput' = s.servoTestOutput
    /\ servoTestElapsed' = s.servoTestElapsed
    /\ gainSelector' = s.gainSelector
    /\ kP' = s.kP
    /\ Ti' = s.Ti
    /\ kD' = s.kD
    /\ pidCoef' = s.pidCoef
    /\ pidIntegral' = s.pidIntegral
    /\ calStateMachine' = s.calStateMachine
    /\ calFile' = s.calFile
    /\ calFactor' = s.calFactor
    /\ scaleFactor' = s.scaleFactor
    /\ calSum' = s.calSum
    /\ calCount' = s.calCount
    /\ calAveraging' = s.calAveraging
    /\ calWeight' = s.calWeight
    /\ reading' = s.reading
    /\ tareInProgress' = s.tareInProgress
    /\ tareElapsed' = s.tareElapsed
    /\ weightSamples' = s.weightSamples
    /\ sampleIndex' = s.sampleIndex
    /\ samplesInitialized' = s.samplesInitialized
    /\ weightSum' = s.weightSum
    /\ setpointPI' = s.setpointPI
    /\ settingsChanged' = s.settingsChanged
    /\ sinceChange' = s.sinceChange
    /\ totalDispensingCycles' = s.totalDispensingCycles
    /\ historyIndex' = s.historyIndex
    /\ historyCount' = s.historyCount

-----------------------------------------------------------------------------
(* ArduPID calls made by the sketch *)

\* myController.stop(): mode OFF, output untouched
pidStop(s) == [s EXCEPT !.running = FALSE]

\* myController.reset(): clears the error/integral/derivative terms
pidReset(s) == [s EXCEPT !.pidHistory = FALSE, !.pidIntegral = Fin(0)]

\* myController.start(): mode ON, with a reset when it was not ON
pidStart(s) == IF s.running THEN s ELSE pidReset([s EXCEPT !.running = TRUE])

\* myController.compute(): when ON and the sample timer fired, writes an
\* output within the output limits; u is that output, or NoFire
pidCompute(s, u) ==
    IF s.running /\ u # NoFire
    THEN [s EXCEPT !.output = u, !.pidHistory = TRUE]
    ELSE s

-----------------------------------------------------------------------------
(* stopSystem() *)

\* stopSystem() that leaves automatic mode as it was
stopSystem_keepAuto(s) ==
    [pidReset(pidStop(s)) EXCEPT
        !.output = 0,
        !.stateMachine = 4,
        !.stopConditionCount = 0]

\* stopSystem() that leaves the valve output as it was
stopSystem_keepOutput(s) ==
    [pidReset(pidStop(s)) EXCEPT
        !.autoState = FALSE,
        !.stateMachine = 4,
        !.stopConditionCount = 0]

\* stopSystem() that toggles automatic mode instead of disabling it
stopSystem_toggleAuto(s) ==
    [pidReset(pidStop(s)) EXCEPT
        !.autoState = ~s.autoState,
        !.output = 0,
        !.stateMachine = 4,
        !.stopConditionCount = 0]

stopSystem(s) ==
    [pidReset(pidStop(s)) EXCEPT
        !.autoState = FALSE,
        !.output = 0,
        !.stateMachine = 4,
        !.stopConditionCount = 0]

(* initPID(): begin() takes the coefficients of the selected preset, resets *)
(* and starts the controller; then stopSystem()                            *)

\* 0.01 / Ti as the double division computes it, in millionths
KiOf(ti) == IF ti = 0 THEN PosInf ELSE Fin(TruncDiv(10000, ti))

\* arr[g] of a double arr[4]: a read past the array yields whatever is there
GainAt(arr, g) == IF g \in DOMAIN arr THEN arr[g] ELSE Garbage

\* kP/10 (kept in tenths), 0.01/Ti, kD of the selected preset
pidBegin(s) ==
    pidStart(pidReset([s EXCEPT !.pidCoef = [kp |-> GainAt(s.kP, s.gainSelector),
                                              ki |-> IF s.gainSelector \in DOMAIN s.Ti
                                                     THEN KiOf(s.Ti[s.gainSelector])
                                                     ELSE Garbage,
                                              kd |-> GainAt(s.kD, s.gainSelector)]]))

\* initPID() that configures the controller and leaves the machine as it is
initPID_noStop(s) == pidBegin(s)

initPID(s) == stopSystem(pidBegin(s))

-----------------------------------------------------------------------------
(* The integral term of the controller: ki * error accumulated and clamped *)
(* to the wind-up band set by setWindUpLimits(0, 0.5); e is the error in   *)
(* thousandths                                                             *)

WindUpMin == 0
WindUpMax == 500000

FScale(a, e) ==
    IF a.k = "nan" THEN NaN
    ELSE IF a.k = "inf"
         THEN IF e = 0 THEN NaN
              ELSE IF (e > 0) = (a.v > 0) THEN PosInf ELSE NegInf
         ELSE Fin(TruncDiv(a.v * e, 1000))

FAdd(x, y) ==
    IF x.k = "nan" \/ y.k = "nan" THEN NaN
    ELSE IF x.k = "inf" /\ y.k = "inf" THEN (IF x.v = y.v THEN x ELSE NaN)
    ELSE IF x.k = "inf" THEN x
    ELSE IF y.k = "inf" THEN y
    ELSE Fin(x.v + y.v)

\* constrain(): comparisons, which a NaN passes unchanged
FClamp(x, lo, hi) ==
    IF x.k = "nan" THEN NaN
    ELSE IF x.k = "inf" THEN (IF x.v > 0 THEN Fin(hi) ELSE Fin(lo))
    ELSE Fin(Max(lo, Min(hi, x.v)))

pidIntegrate(s, e) ==
    IF s.running
    THEN [s EXCEPT !.pidIntegral = FClamp(FAdd(@, FScale(s.pidCoef.ki, e)),
                                         WindUpMin, WindUpMax),
                   !.pidHistory = TRUE]
    ELSE s

-----------------------------------------------------------------------------
(* Boot: the global initialisers, then setup() with the stored settings    *)
(* "...,300,1,180,0,5,10,1000,0,2": amount 300, servo 1..180, hysteresis   *)
(* 5, glass 10, max 1000, viscosity Medium                                 *)

Globals(file) ==
    [stateMachine |-> 4, running |-> FALSE, pidHistory |-> FALSE, output |-> 0,
     autoState |-> FALSE, cnt |-> 0, stopConditionCount |-> 0,
     actualWeight |-> 0, adjustedWeight |-> 0, glasWeight |-> 0, setpoint |-> 0,
     desiredAmount |-> 300, maxWeight |-> 1000, minGlassWeight |-> 10,
     stopHysteresis |-> 5, servoMin |-> 1, servoMax |-> 180, servoPos |-> 1,
     servoTestMode |-> FALSE, servoTestOutput |-> 0, servoTestElapsed |-> 0,
     gainSelector |-> 2,
     kP |-> [i \in 0..3 |-> <<8, 8, 8, 10>>[i + 1]],
     Ti |-> [i \in 0..3 |-> <<10, 10, 7, 0>>[i + 1]],
     kD |-> [i \in 0..3 |-> <<5, 5, 2, 1>>[i + 1]],
     pidCoef |-> [kp |-> 0, ki |-> Fin(0), kd |-> 0], pidIntegral |-> Fin(0),
     calStateMachine |-> 0, calFile |-> file, calFactor |-> 0, scaleFactor |-> 1,
     calSum |-> 0, calCount |-> 0, calAveraging |-> FALSE, calWeight |-> 250,
     reading |-> 0, tareInProgress |-> FALSE, tareElapsed |-> 0,
     weightSamples |-> [i \in 0..(WEIGHT_SAMPLES - 1) |-> 0], sampleIndex |-> 0,
     samplesInitialized |-> FALSE, weightSum |-> 0,
     setpointPI |-> Fin(0),
     settingsChanged |-> FALSE,
     sinceChange |-> 0,
     totalDispensingCycles |-> 0,
     historyIndex |-> 0,
     historyCount |-> 0]

\* readCal() that never loads the stored factor
readCal_ignoreFile(s) == s

\* readCal(): the factor of /cal.txt when the file exists
readCal(s) ==
    IF s.calFile = {} THEN s
    ELSE [s EXCEPT !.calFactor = CHOOSE f \in s.calFile : TRUE]

\* initializeWeightSampling() that leaves the old samples in the buffer
initializeWeightSampling_keepBuffer(s) ==
    [s EXCEPT !.sampleIndex = 0, !.samplesInitialized = FALSE, !.weightSum = 0]

\* initializeWeightSampling()
initializeWeightSampling(s) ==
    [s EXCEPT !.sampleIndex = 0, !.samplesInitialized = FALSE, !.weightSum = 0,
              !.weightSamples = [i \in 0..(WEIGHT_SAMPLES - 1) |-> 0]]

\* setup(): readCal, sampler, scale.set_scale(calFactor), initPID, stop
BootState(file) ==
    LET s1 == initializeWeightSampling(readCal(Globals(file)))
        s2 == [s1 EXCEPT !.scaleFactor = s1.calFactor]
    IN  pidStop(initPID(s2))

-----------------------------------------------------------------------------
(* handleApiCommand(): c is the decoded request [command, value] *)

setViscosity(s, v) ==
    LET g == ToUint8(v)
        s1 == [s EXCEPT !.gainSelector = g]
        s2 == IF g \in 1..3
              THEN [s1 EXCEPT !.kP[g] = FactoryKP[g], !.Ti[g] = FactoryTi[g],
                              !.kD[g] = FactoryKD[g]]
              ELSE s1
    IN  initPID(s2)

\* "setPID" that clears the gains whose keys the payload does not have
setPID_clearAbsent(s, v) ==
    IF s.gainSelector = 0
    THEN initPID([s EXCEPT !.kP[0] = IF v.kp = {} THEN 0 ELSE CHOOSE x \in v.kp : TRUE,
                           !.Ti[0] = IF v.ti = {} THEN 0 ELSE CHOOSE x \in v.ti : TRUE,
                           !.kD[0] = IF v.kd = {} THEN 0 ELSE CHOOSE x \in v.kd : TRUE])
    ELSE s

\* "setPID" that edits whichever preset is selected
setPID_activeProfile(s, v) ==
    LET g == s.gainSelector
    IN  IF g \in 0..3
        THEN initPID([s EXCEPT !.kP[g] = IF v.kp = {} THEN @ ELSE CHOOSE x \in v.kp : TRUE,
                               !.Ti[g] = IF v.ti = {} THEN @ ELSE CHOOSE x \in v.ti : TRUE,
                               !.kD[g] = IF v.kd = {} THEN @ ELSE CHOOSE x \in v.kd : TRUE])
        ELSE s

\* "setPID": only for the user-defined preset; v holds the keys of the payload
setPID(s, v) ==
    IF s.gainSelector = 0
    THEN initPID([s EXCEPT !.kP[0] = IF v.kp = {} THEN @ ELSE CHOOSE x \in v.kp : TRUE,
                           !.Ti[0] = IF v.ti = {} THEN @ ELSE CHOOSE x \in v.ti : TRUE,
                           !.kD[0] = IF v.kd = {} THEN @ ELSE CHOOSE x \in v.kd : TRUE])
    ELSE s

servoTest(s, p) ==
    LET s1 == [s EXCEPT !.servoTestMode = TRUE, !.servoTestElapsed = 0]
    IN  IF p = PosMin THEN [s1 EXCEPT !.servoTestOutput = 0]
        ELSE IF p = PosMax THEN [s1 EXCEPT !.servoTestOutput = 10]
        ELSE s1

\* "calibrate" that also advances out of TARING
calibrateCommand_fromAnyState(s) ==
    IF s.calStateMachine \in {0, 1, 2} THEN [s EXCEPT !.calStateMachine = @ + 1]
    ELSE IF s.calStateMachine = 3 THEN [s EXCEPT !.calStateMachine = 4]
    ELSE s

\* "calibrate"
calibrateCommand(s) ==
    IF s.calStateMachine = 0 THEN [s EXCEPT !.calStateMachine = 2]
    ELSE IF s.calStateMachine = 1 THEN [s EXCEPT !.calStateMachine = 2]
    ELSE IF s.calStateMachine = 3 THEN [s EXCEPT !.calStateMachine = 4]
    ELSE s

\* "start" accepted in every state
startCommand_anyState(s) == [s EXCEPT !.stateMachine = 1]

\* "start": accepted only in state 4
startCommand(s) == IF s.stateMachine = 4 THEN [s EXCEPT !.stateMachine = 1] ELSE s

\* initializeStats(): the history ring is emptied
initializeStats(s) == [s EXCEPT !.historyCount = 0, !.historyIndex = 0]

\* "resetStatistics"
resetStatistics(s) == initializeStats([s EXCEPT !.totalDispensingCycles = 0])

handleApiCommand(s, c) ==
    CASE c.command = "start" -> startCommand(s)
      [] c.command = "stop" -> stopSystem(s)
      [] c.command = "setAuto" -> [s EXCEPT !.autoState = (c.value # 0)]
      [] c.command = "setAmount" -> [s EXCEPT !.desiredAmount = c.value]
      [] c.command = "setServoMin" -> [s EXCEPT !.servoMin = c.value]
      [] c.command = "setServoMax" -> [s EXCEPT !.servoMax = c.value]
      [] c.command = "setStopHysteresis" -> [s EXCEPT !.stopHysteresis = c.value]
      [] c.command = "setMinGlassWeight" -> [s EXCEPT !.minGlassWeight = c.value]
      [] c.command = "setMaxWeight" -> [s EXCEPT !.maxWeight = ToUint16(c.value)]
      [] c.command = "setViscosity" -> setViscosity(s, c.value)
      [] c.command = "setPID" -> setPID(s, c.value)
      [] c.command = "servoTest" -> servoTest(s, c.value)
      [] c.command = "setCalWeight" -> [s EXCEPT !.calWeight = c.value]
      [] c.command = "calibrate" -> calibrateCommand(s)
      [] c.command = "resetStatistics" -> resetStatistics(s)
      [] OTHER -> s

-----------------------------------------------------------------------------
(* loop(): the part after server.handleClient() *)

\* actualWeight = getStableWeight(); adjustedWeight = max(0, actualWeight - glasWeight)
readWeight(s, w) ==
    [s EXCEPT !.actualWeight = w,
              !.adjustedWeight = Max(0, ToInt16(w - s.glasWeight))]

(* The weight sampler, getStableWeight(): x is the reading of the scale.   *)
(* weightSum (int32_t) holds at most WEIGHT_SAMPLES int16_t values and      *)
(* calSum (long) at most calSamples 24-bit readings: neither can wrap.      *)

\* getStableWeight() that never takes the oldest sample out of the sum
getStableWeight_noEvict(s, x) ==
    LET s2 == [s EXCEPT !.weightSamples[s.sampleIndex] = x,
                        !.weightSum = @ + x,
                        !.sampleIndex = (@ + 1) % WEIGHT_SAMPLES]
    IN  IF ~s2.samplesInitialized /\ s2.sampleIndex = 0
        THEN [s2 EXCEPT !.samplesInitialized = TRUE]
        ELSE s2

getStableWeight(s, x) ==
    LET s1 == IF s.samplesInitialized
              THEN [s EXCEPT !.weightSum = @ - s.weightSamples[s.sampleIndex]]
              ELSE s
        s2 == [s1 EXCEPT !.weightSamples[s.sampleIndex] = x,
                         !.weightSum = @ + x,
                         !.sampleIndex = (@ + 1) % WEIGHT_SAMPLES]
    IN  IF ~s2.samplesInitialized /\ s2.sampleIndex = 0
        THEN [s2 EXCEPT !.samplesInitialized = TRUE]
        ELSE s2

\* a return value that is the average from the first call on
stableWeightOf_alwaysAverage(s, x) ==
    ToInt16(TruncDiv(s.weightSum, WEIGHT_SAMPLES))

\* the value getStableWeight() returns, s being the state it leaves
stableWeightOf(s, x) ==
    IF s.samplesInitialized
    THEN ToInt16(TruncDiv(s.weightSum, WEIGHT_SAMPLES))
    ELSE x

(* The calibration switch of loop() *)

\* case 0: without /cal.txt go and wait for the calibration button
calCheck(s) ==
    IF s.calFile = {} THEN [s EXCEPT !.calStateMachine = 1] ELSE s

\* case 2 that tares on its first tick
tareStep_noDelay(s, d) ==
    [s EXCEPT !.scaleFactor = 1, !.calStateMachine = 3, !.tareInProgress = FALSE]

\* case 2: tare after the delay; d is the time since the previous tick
tareStep(s, d) ==
    LET s1 == IF ~s.tareInProgress
              THEN [s EXCEPT !.tareInProgress = TRUE, !.tareElapsed = 0]
              ELSE [s EXCEPT !.tareElapsed = @ + d]
    IN  IF s1.tareElapsed > TARE_DELAY_MS
        THEN [s1 EXCEPT !.scaleFactor = 1, !.calStateMachine = 3,
                        !.tareInProgress = FALSE]
        ELSE s1

\* case 4 takes the sample r and reaches the sample count
calSamplingDone(s) ==
    s.calStateMachine = 4
    /\ (IF s.calAveraging THEN s.calCount ELSE 0) + 1 >= calSamples

\* the integer division by a zero calWeight traps
calTraps(s, z) == calSamplingDone(s) /\ s.calWeight = 0 /\ z = "trap"

\* case 4: one sample per tick; after calSamples samples derive the factor,
\* write it to /cal.txt and hand it to the scale.  z is what the integer
\* division by a zero calWeight yields when it does not trap.
calSampling(s, r, z) ==
    LET s1 == IF ~s.calAveraging
              THEN [s EXCEPT !.calSum = 0, !.calCount = 0, !.calAveraging = TRUE]
              ELSE s
        s2 == [s1 EXCEPT !.calSum = @ + r, !.calCount = @ + 1]
    IN  IF s2.calCount >= calSamples
        THEN LET rd == TruncDiv(s2.calSum, calSamples)
                 f == IF s2.calWeight = 0 THEN 0 - 1 ELSE TruncDiv(rd, s2.calWeight)
             IN  [s2 EXCEPT !.reading = rd, !.calFile = {f}, !.scaleFactor = f,
                            !.calAveraging = FALSE, !.calStateMachine = 0]
        ELSE s2

\* switch (calStateMachine)
calibrationStep(s, r, d, z) ==
    CASE s.calStateMachine = 0 -> calCheck(s)
      [] s.calStateMachine = 2 -> tareStep(s, d)
      [] s.calStateMachine = 4 -> calSampling(s, r, z)
      [] OTHER -> s

(* The dosing switch of loop() *)

\* case 1: glass detection
detectGlass(s) ==
    LET c1 == IF s.actualWeight < s.minGlassWeight THEN 0 ELSE ToUint8(s.cnt + 1)
    IN  IF c1 > GLASS_CONFIRM_COUNT
        THEN [s EXCEPT !.glasWeight = ToUint16(s.actualWeight), !.cnt = 0,
                       !.stateMachine = 2]
        ELSE [s EXCEPT !.cnt = c1]

\* case 2 that moves on to FILLING without starting the PID
startFill_noStart(s) ==
    [s EXCEPT !.setpoint = s.desiredAmount,
              !.setpointPI = FDiv(s.desiredAmount, s.desiredAmount),
              !.stateMachine = 3]

\* case 2: lock the target and start the PID
startFill(s) ==
    [pidStart([s EXCEPT !.setpoint = s.desiredAmount,
                        !.setpointPI = FDiv(s.desiredAmount, s.desiredAmount)])
        EXCEPT !.stateMachine = 3]

\* the stop condition of case 3
StopCondition(s) == s.setpoint - s.adjustedWeight < s.stopHysteresis

\* case 3 that stops one confirmation cycle early
filling_oneCycleEarly(s) ==
    IF StopCondition(s)
    THEN LET n == ToUint8(s.stopConditionCount + 1)
         IN  IF n >= STOP_CONFIRM_CYCLES - 1
             THEN [pidReset(pidStop(s)) EXCEPT !.output = 0, !.stateMachine = 4,
                                               !.stopConditionCount = 0]
             ELSE [s EXCEPT !.stopConditionCount = n]
    ELSE [s EXCEPT !.stopConditionCount = 0]

\* case 3 that completes the dose without closing the valve
filling_keepOutput(s) ==
    IF StopCondition(s)
    THEN LET n == ToUint8(s.stopConditionCount + 1)
         IN  IF n >= STOP_CONFIRM_CYCLES
             THEN [pidReset(pidStop(s)) EXCEPT !.stateMachine = 4,
                                               !.stopConditionCount = 0]
             ELSE [s EXCEPT !.stopConditionCount = n]
    ELSE [s EXCEPT !.stopConditionCount = 0]

\* case 3: fill until the stop condition is stable
filling(s) ==
    IF StopCondition(s)
    THEN LET n == ToUint8(s.stopConditionCount + 1)
         IN  IF n >= STOP_CONFIRM_CYCLES
             THEN [pidReset(pidStop(s)) EXCEPT !.output = 0, !.stateMachine = 4,
                                               !.stopConditionCount = 0]
             ELSE [s EXCEPT !.stopConditionCount = n]
    ELSE [s EXCEPT !.stopConditionCount = 0]

\* case 4 that restarts whether or not automatic mode is enabled
complete_ignoreAuto(s) ==
    LET s1 == pidReset(pidStop(s))
    IN  IF s1.actualWeight < s1.minGlassWeight
        THEN [s1 EXCEPT !.stateMachine = 1, !.cnt = 0]
        ELSE s1

\* case 4: complete / idle, auto-restart when the glass is removed
complete(s) ==
    LET s1 == pidReset(pidStop(s))
    IN  IF s1.actualWeight < s1.minGlassWeight /\ s1.autoState
        THEN [s1 EXCEPT !.stateMachine = 1, !.cnt = 0]
        ELSE s1

\* switch whose case 1 runs on into case 2 in the tick that confirms the glass
dosingStep_fallThrough(s) ==
    CASE s.stateMachine = 1 ->
            LET s1 == detectGlass(s)
            IN  IF s1.stateMachine = 2 THEN startFill(s1) ELSE s1
      [] s.stateMachine = 2 -> startFill(s)
      [] s.stateMachine = 3 -> filling(s)
      [] s.stateMachine = 4 -> complete(s)
      [] OTHER -> s

\* switch (stateMachine)
dosingStep(s) ==
    CASE s.stateMachine = 1 -> detectGlass(s)
      [] s.stateMachine = 2 -> startFill(s)
      [] s.stateMachine = 3 -> filling(s)
      [] s.stateMachine = 4 -> complete(s)
      [] OTHER -> s

\* servo test override with timeout
servoTestStep(s) ==
    IF s.servoTestMode
    THEN IF s.servoTestElapsed > ServoTestTicks
         THEN [s EXCEPT !.servoTestMode = FALSE, !.servoTestOutput = 0]
         ELSE [s EXCEPT !.output = s.servoTestOutput]
    ELSE s

\* a servo write that takes the output in tenths for the output
servoWrite_unscaled(s) ==
    [s EXCEPT !.servoPos = s.servoMin + s.output * (s.servoMax - s.servoMin)]

\* myservo.write(servoMin + output * (servoMax - servoMin))
servoWrite(s) ==
    [s EXCEPT !.servoPos = s.servoMin + (s.output * (s.servoMax - s.servoMin)) \div 10]

\* one more tick of the clock the servo test is timed against
clockTick(s) ==
    IF s.servoTestMode
    THEN [s EXCEPT !.servoTestElapsed = Min(s.servoTestElapsed + 1, ServoTestTicks + 1)]
    ELSE [s EXCEPT !.servoTestElapsed = 0]

\* w: stable weight, u: PID result, r: calibration sample, d: ms since the
\* previous tick, z: outcome of a division by zero
loopBody(s, w, u, r, d, z) ==
    IF calTraps(s, z)
    THEN BootState(s.calFile)
    ELSE clockTick(servoWrite(servoTestStep(pidCompute(
            dosingStep(calibrationStep(readWeight(s, w), r, d, z)), u))))

-----------------------------------------------------------------------------------------------------------------------------------------------------
(* The settings file: markSettingsChanged(), saveSettings(), checkAutoSave() *)

\* commands whose branch ends with markSettingsChanged()
MarkingCommands ==
    {"setAuto", "setAmount", "setServoMin", "setServoMax", "setStopHysteresis",
     "setMinGlassWeight", "setMaxWeight", "setCalWeight"}

markSettingsChanged(s) == [s EXCEPT !.settingsChanged = TRUE, !.sinceChange = 0]

\* writes /data.txt and clears the flag
saveSettings(s) == [s EXCEPT !.settingsChanged = FALSE]

\* an auto-save that does not wait for the quiet period
checkAutoSave_noDelay(s) ==
    IF s.settingsChanged THEN saveSettings(s) ELSE s

checkAutoSave(s) ==
    IF s.settingsChanged /\ s.sinceChange >= AUTOSAVE_DELAY
    THEN saveSettings(s)
    ELSE s

\* the command c saves the settings at once: setViscosity, resetStatistics, and setPID when
\* the user-defined preset is selected (s is the state before the command)
SavesAtOnce(s, c) ==
    \/ c.command \in {"setViscosity", "resetStatistics"}
    \/ c.command = "setPID" /\ s.gainSelector = 0

\* handleApiCommand() with what its branch does to the settings file
handleApiCommandSaving(s, c) ==
    LET s1 == handleApiCommand(s, c)
    IN  IF c.command \in MarkingCommands THEN markSettingsChanged(s1)
        ELSE IF SavesAtOnce(s, c) THEN saveSettings(s1)
        ELSE s1

\* millis() is d ms further
timePasses(s, d) == [s EXCEPT !.sinceChange = Min(s.sinceChange + d, AUTOSAVE_DELAY)]

\* loop() after handleClient(): checkAutoSave(), the rest of the tick, and
\* the d ms that the tick takes
loopBodySaving(s, w, u, r, d, z) ==
    timePasses(loopBody(checkAutoSave(s), w, u, r, d, z), d)

-----------------------------------------------------------------------------
(* The dispensing statistics: recordDispensingStats() *)

\* a record that advances the ring without wrapping round
recordDispensingStats_noWrap(s) ==
    IF s.setpoint > 0
    THEN LET s1 == [s EXCEPT !.historyIndex = s.historyIndex + 1,
                             !.historyCount = Min(s.historyCount + 1, HISTORY_SIZE),
                             !.totalDispensingCycles = s.totalDispensingCycles + 1]
         IN  IF s1.totalDispensingCycles % STATS_SAVE_EVERY = 0
             THEN markSettingsChanged(s1) ELSE s1
    ELSE s

\* one record into the ring of the last 10 doses, and one more cycle counted
recordDispensingStats(s) ==
    IF s.setpoint > 0
    THEN LET s1 == [s EXCEPT !.historyIndex = (s.historyIndex + 1) % HISTORY_SIZE,
                             !.historyCount = Min(s.historyCount + 1, HISTORY_SIZE),
                             !.totalDispensingCycles = s.totalDispensingCycles + 1]
         IN  IF s1.totalDispensingCycles % STATS_SAVE_EVERY = 0
             THEN markSettingsChanged(s1) ELSE s1
    ELSE s

\* loop() after handleClient() with the call of recordDispensingStats() that
\* the completion branch of case 3 begins with: it reads setpoint and
\* adjustedWeight, which the rest of the tick leaves as they are
loopBodyStats(s, w, u, r, d, z) ==
    LET s1 == loopBody(s, w, u, r, d, z)
    IN  IF ~calTraps(s, z) /\ s.stateMachine = 3 /\ s1.stateMachine = 4
        THEN recordDispensingStats(s1)
        ELSE s1

-----------------------------------------------------------------------------
(* The initial states: the device has booted with /cal.txt as given *)

InitFrom(s) ==
    /\ stateMachine = s.stateMachine
    /\ running = s.running
    /\ pidHistory = s.pidHistory
    /\ output = s.output
    /\ autoState = s.autoState
    /\ cnt = s.cnt
    /\ stopConditionCount = s.stopConditionCount
    /\ actualWeight = s.actualWeight
    /\ adjustedWeight = s.adjustedWeight
    /\ glasWeight = s.glasWeight
    /\ setpoint = s.setpoint
    /\ desiredAmount = s.desiredAmount
    /\ maxWeight = s.maxWeight
    /\ minGlassWeight = s.minGlassWeight
    /\ stopHysteresis = s.stopHysteresis
    /\ servoMin = s.servoMin
    /\ servoMax = s.servoMax
    /\ servoPos = s.servoPos
    /\ servoTestMode = s.servoTestMode
    /\ servoTestOutput = s.servoTestOutput
    /\ servoTestElapsed = s.servoTestElapsed
    /\ gainSelector = s.gainSelector
    /\ kP = s.kP
    /\ Ti = s.Ti
    /\ kD = s.kD
    /\ pidCoef = s.pidCoef
    /\ pidIntegral = s.pidIntegral
    /\ calStateMachine = s.calStateMachine
    /\ calFile = s.calFile
    /\ calFactor = s.calFactor
    /\ scaleFactor = s.scaleFactor
    /\ calSum = s.calSum
    /\ calCount = s.calCount
    /\ calAveraging = s.calAveraging
    /\ calWeight = s.calWeight
    /\ reading = s.reading
    /\ tareInProgress = s.tareInProgress
    /\ tareElapsed = s.tareElapsed
    /\ weightSamples = s.weightSamples
    /\ sampleIndex = s.sampleIndex
    /\ samplesInitialized = s.samplesInitialized
    /\ weightSum = s.weightSum
    /\ setpointPI = s.setpointPI
    /\ settingsChanged = s.settingsChanged
    /\ sinceChange = s.sinceChange
    /\ totalDispensingCycles = s.totalDispensingCycles
    /\ historyIndex = s.historyIndex
    /\ historyCount = s.historyCount
    /\ pc = "net"
    /\ lastCmd = "none"
    /\ lastPid = NoPayload
    /\ prevSM = s.stateMachine
    /\ consec = 0
    /\ condRun = 0
    /\ sinceStop = FALSE
    /\ prevCal = s.calStateMachine
    /\ calFileAtStart = s.calFile
    /\ taringMs = 0 - 1
    /\ tareRun = 0
    /\ sampSeen = 0
    /\ sampSum = 0
    /\ smpHist = << >>
    /\ smpCalls = 0
    /\ smpReturn = 0
    /\ quietMs = 0 - 1
    /\ burstWrites = 0
    /\ burstFlushed = FALSE

InitWith(files) == \E f \in files : InitFrom(BootState(f))

Init == InitWith({StoredCalFile})

-----
(* The commands the operator issues *)

Cmd(c, v) == [command |-> c, value |-> v]

Commands ==
    {Cmd("start", 0), Cmd("stop", 0)}
    \cup {Cmd("setAuto", v) : v \in {0, 1}}
    \cup {Cmd("setAmount", v) : v \in AmountPayloads}
    \cup {Cmd("setMaxWeight", v) : v \in MaxWeightPayloads}
    \cup {Cmd("setViscosity", v) : v \in ViscosityPayloads}
    \cup {Cmd("servoTest", v) : v \in {PosMin, PosMax, PosOther}}

\* server.handleClient() with no request pending
NoRequest ==
    /\ pc = "net"
    /\ pc' = "body"
    /\ lastCmd' = "none"
    /\ lastPid' = NoPayload
    /\ prevSM' = stateMachine
    /\ prevCal' = calStateMachine
    /\ UNCHANGED <<progVars, consec, condRun, sinceStop, calFileAtStart,
                   taringMs, tareRun, sampSeen, sampSum, samplerHist,
                   saveHist>>

\* server.handleClient() dispatching one request to handleApiCommand()
ApiCommandOf(cmds) ==
    /\ pc = "net"
    /\ \E c \in cmds :
        /\ Apply(handleApiCommand(Cur, c))
        /\ lastCmd' = c.command
        /\ lastPid' = IF c.command = "setPID" THEN c.value ELSE NoPayload
        /\ sinceStop' = IF c.command = "stop" THEN TRUE
                        ELSE IF c.command \in {"start", "setAuto", "servoTest"} THEN FALSE
                        ELSE sinceStop
        /\ calFileAtStart' = IF calStateMachine \in {0, 1} THEN calFile
                             ELSE calFileAtStart
        /\ tareRun' = IF c.command = "calibrate" /\ calStateMachine \in {0, 1}
                      THEN 0 ELSE tareRun
    /\ pc' = "body"
    /\ prevSM' = stateMachine
    /\ prevCal' = calStateMachine
    /\ UNCHANGED <<consec, condRun, taringMs, sampSeen, sampSum, samplerHist,
                   saveHist>>

ApiCommand == ApiCommandOf(Commands)

\* the rest of the control tick, its inputs drawn from W (stable weight), U
\* (PID result), R (calibration sample), D (ms since the previous tick) and
\* Z (outcome of a division by zero)
LoopBodyOf(W, U, R, D, Z) ==
    /\ pc = "body"
    /\ \E w \in W, u \in U, r \in R, d \in D, z \in Z :
        /\ Apply(loopBody(Cur, w, u, r, d, z))
        /\ consec' = IF stateMachine = 1 /\ w >= minGlassWeight
                     THEN Min(consec + 1, GLASS_CONFIRM_COUNT + 1) ELSE 0
        /\ condRun' = IF stateMachine = 3 /\ StopCondition(readWeight(Cur, w))
                      THEN Min(condRun + 1, STOP_CONFIRM_CYCLES + 1) ELSE 0
        /\ taringMs' = IF calStateMachine # 2 THEN 0 - 1
                       ELSE IF taringMs < 0 THEN 0
                       ELSE Min(taringMs + d, 2 * TARE_DELAY_MS)
        /\ tareRun' = IF calStateMachine = 2 /\ tareStep(Cur, d).calStateMachine = 3
                      THEN tareRun + 1 ELSE tareRun
        /\ sampSeen' = IF calStateMachine = 4 THEN sampSeen + 1 ELSE 0
        /\ sampSum' = IF calStateMachine = 4 THEN sampSum + r ELSE 0
        /\ calFileAtStart' = IF calStateMachine \in {0, 1} THEN calFile
                             ELSE calFileAtStart
    /\ pc' = "net"
    /\ prevSM' = stateMachine
    /\ prevCal' = calStateMachine
    /\ lastCmd' = "none"
    /\ lastPid' = NoPayload
    /\ UNCHANGED <<sinceStop, samplerHist, saveHist>>

LoopBody == LoopBodyOf(Weights, PidResults, {0}, {looptime}, {"trap"})

Next == NoRequest \/ ApiCommand \/ LoopBody

Spec == Init /\ [][Next]_vars

-----------------------------------------------------------------------------
(* Calibration: booted with or without /cal.txt, the operator presses the  *)
(* calibration button and sets the reference weight                        *)

CalInit == InitWith({NoCalFile, StoredCalFile})

CalCommands ==
    {Cmd("calibrate", 0)} \cup {Cmd("setCalWeight", v) : v \in CalWeightPayloads}

CalApiCommand == ApiCommandOf(CalCommands)

CalLoopBody == LoopBodyOf({0}, {NoFire}, RawSamples, {looptime}, DivZeroOutcomes)

CalNext == NoRequest \/ CalApiCommand \/ CalLoopBody

CalSpec == CalInit /\ [][CalNext]_vars

\* power is lost and the device boots again: the globals are initialised and
\* setup() runs with whatever /cal.txt holds
Reboot ==
    /\ Apply(BootState(calFile))
    /\ pc' = "net"
    /\ lastCmd' = "reboot"
    /\ lastPid' = NoPayload
    /\ prevSM' = stateMachine
    /\ prevCal' = calStateMachine
    /\ consec' = 0
    /\ condRun' = 0
    /\ sinceStop' = FALSE
    /\ taringMs' = 0 - 1
    /\ tareRun' = 0
    /\ sampSeen' = 0
    /\ sampSum' = 0
    /\ smpHist' = << >>
    /\ smpCalls' = 0
    /\ smpReturn' = 0
    /\ UNCHANGED <<calFileAtStart, saveHist>>

\* a steady load on the scale while the power fails
SteadyLoopBody == LoopBodyOf({0}, {NoFire}, SteadySamples, {looptime}, DivZeroOutcomes)

CalRebootNext == NoRequest \/ CalApiCommand \/ SteadyLoopBody \/ Reboot

CalRebootSpec == CalInit /\ [][CalRebootNext]_vars

-----------------------------------------------------------------------------
(* Gain selection: the operator picks a viscosity preset and edits the     *)
(* user-defined gains                                                      *)

GainCommands ==
    {Cmd("setViscosity", v) : v \in AllViscosities}
    \cup {Cmd("setPID", v) : v \in PidPayloads}

GainApiCommand == ApiCommandOf(GainCommands)

IdleLoopBody == LoopBodyOf({0}, {NoFire}, {0}, {looptime}, {"trap"})

GainNext == NoRequest \/ GainApiCommand \/ IdleLoopBody

GainSpec == Init /\ [][GainNext]_vars

\* the same with setViscosity payloads that name no preset
AnyGainCommands ==
    {Cmd("setViscosity", v) : v \in AnyViscosities}
    \cup {Cmd("setPID", v) : v \in PidPayloads}

AnyGainApiCommand == ApiCommandOf(AnyGainCommands)

AnyGainNext == NoRequest \/ AnyGainApiCommand \/ IdleLoopBody

AnyGainSpec == Init /\ [][AnyGainNext]_vars

-----------------------------------------------------------------------------
(* Actuator limits and gains changed while the machine doses *)

LimitCommands ==
    {Cmd("start", 0), Cmd("setViscosity", 0)}
    \cup {Cmd("setServoMin", v) : v \in ServoMinPayloads}
    \cup {Cmd("setServoMax", v) : v \in ServoMaxPayloads}
    \cup {Cmd("setPID", v) : v \in KpPayloads}

LimitApiCommand == ApiCommandOf(LimitCommands)

LimitLoopBody == LoopBodyOf(GlassWeights, PidResults, {0}, {looptime}, {"trap"})

LimitNext == NoRequest \/ LimitApiCommand \/ LimitLoopBody

LimitSpec == Init /\ [][LimitNext]_vars

-----------------------------------------------------------------------------
(* One fill after another, over the whole range of the stable weight *)

FillCommands ==
    {Cmd("start", 0), Cmd("stop", 0), Cmd("setAuto", 1), Cmd("servoTest", PosMax)}
    \cup {Cmd("setAmount", v) : v \in AmountPayloads}

FillApiCommand == ApiCommandOf(FillCommands)

FillLoopBody == LoopBodyOf(FillWeights, PidResults, {0}, {looptime}, {"trap"})

FillNext == NoRequest \/ FillApiCommand \/ FillLoopBody

FillSpec == Init /\ [][FillNext]_vars

-----------------------------------------------------------------------------
(* Glass detection with the threshold the operator sets *)

ThresholdCommands ==
    {Cmd("start", 0), Cmd("stop", 0), Cmd("setAuto", 1)}
    \cup {Cmd("setMinGlassWeight", v) : v \in MinGlassPayloads}

ThresholdApiCommand == ApiCommandOf(ThresholdCommands)

ThresholdLoopBody ==
    LoopBodyOf(ThresholdWeights, PidResults, {0}, {looptime}, {"trap"})

ThresholdNext == NoRequest \/ ThresholdApiCommand \/ ThresholdLoopBody

ThresholdSpec == Init /\ [][ThresholdNext]_vars

-----------------------------------------------------------------------------
(* Doses that run to completion, are stopped, or are cut short by a change *)
(* of the controller's gains                                               *)

AbortCommands ==
    {Cmd("start", 0), Cmd("stop", 0), Cmd("setAuto", 1)}
    \cup {Cmd("setViscosity", v) : v \in AbortViscosities}
    \cup {Cmd("setPID", v) : v \in KpPayloads}

AbortApiCommand == ApiCommandOf(AbortCommands)

AbortLoopBody == LoopBodyOf(DoseWeights, PidResults, {0}, {looptime}, {"trap"})

AbortNext == NoRequest \/ AbortApiCommand \/ AbortLoopBody

AbortSpec == Init /\ [][AbortNext]_vars

-----------------------------------------------------------------------------
(* The calibration button pressed while the machine doses, and a dose      *)
(* started while the scale is being calibrated                             *)

InterlockCommands == {Cmd("start", 0), Cmd("calibrate", 0)}

InterlockApiCommand == ApiCommandOf(InterlockCommands)

InterlockLoopBody ==
    LoopBodyOf(GlassWeights, {NoFire}, SteadySamples, SlowTickMs, {"trap"})

InterlockNext == NoRequest \/ InterlockApiCommand \/ InterlockLoopBody

InterlockSpec == Init /\ [][InterlockNext]_vars

-----------------------------------------------------------------------------
(* Settings changed while the machine idles, and the ticks that save them *)

SaveCommands ==
    {Cmd("setAuto", 1)}
    \cup {Cmd("setAmount", v) : v \in AmountPayloads}
    \cup {Cmd("setViscosity", v) : v \in ViscosityPayloads}

\* server.handleClient() dispatching one request, with what its branch does
\* to the settings file
SaveApiCommandOf(cmds) ==
    /\ pc = "net"
    /\ \E c \in cmds :
        /\ Apply(handleApiCommandSaving(Cur, c))
        /\ lastCmd' = c.command
        /\ lastPid' = IF c.command = "setPID" THEN c.value ELSE NoPayload
        /\ quietMs' = IF c.command \in MarkingCommands THEN 0 ELSE quietMs
        /\ burstWrites' = IF c.command \in MarkingCommands THEN 0 ELSE burstWrites
        /\ burstFlushed' = IF c.command \in MarkingCommands THEN FALSE
                           ELSE IF SavesAtOnce(Cur, c) THEN TRUE
                           ELSE burstFlushed
    /\ pc' = "body"
    /\ prevSM' = stateMachine
    /\ prevCal' = calStateMachine
    /\ UNCHANGED <<consec, condRun, sinceStop, calFileAtStart, taringMs,
                   tareRun, sampSeen, sampSum, samplerHist>>

SaveApiCommand == SaveApiCommandOf(SaveCommands)

\* the rest of the tick, with an empty scale and the tick taking d ms
SaveLoopBody ==
    /\ pc = "body"
    /\ \E d \in QuietTickMs :
        /\ Apply(loopBodySaving(Cur, 0, NoFire, 0, d, "trap"))
        /\ quietMs' = IF quietMs < 0 THEN quietMs
                      ELSE Min(quietMs + d, AUTOSAVE_DELAY)
    /\ burstWrites' = IF settingsChanged /\ ~checkAutoSave(Cur).settingsChanged
                      THEN Min(burstWrites + 1, 2) ELSE burstWrites
    /\ pc' = "net"
    /\ prevSM' = stateMachine
    /\ prevCal' = calStateMachine
    /\ lastCmd' = "none"
    /\ lastPid' = NoPayload
    /\ UNCHANGED <<consec, condRun, sinceStop, calFileAtStart, taringMs,
                   tareRun, sampSeen, sampSum, samplerHist, burstFlushed>>

AutoSaveNext == NoRequest \/ SaveApiCommand \/ SaveLoopBody

AutoSaveSpec == Init /\ [][AutoSaveNext]_vars

-----------------------------------------------------------------------------
(* The controller on its own: a preset is selected, the controller is      *)
(* started for a fill, computes on the errors of the fill, and is stopped  *)

SelectProfile ==
    /\ \E v \in AllViscosities : Apply(setViscosity(Cur, v))
    /\ UNCHANGED <<pc, histVars>>

PidStart ==
    /\ ~running
    /\ Apply(pidStart(Cur))
    /\ UNCHANGED <<pc, histVars>>

PidCompute ==
    /\ running
    /\ \E u \in {OutLow, OutHigh}, e \in PidErrors :
            Apply(pidIntegrate(pidCompute(Cur, u), e))
    /\ UNCHANGED <<pc, histVars>>

PidStop ==
    /\ running
    /\ Apply(stopSystem(Cur))
    /\ UNCHANGED <<pc, histVars>>

PidNext == SelectProfile \/ PidStart \/ PidCompute \/ PidStop

PidSpec == Init /\ [][PidNext]_vars

-----------------------------------------------------------------------------
(* The weight sampler on its own: calls of getStableWeight() with readings *)
(* of the scale, and initializeWeightSampling()                            *)

GetStableWeight ==
    /\ smpCalls < MaxSamplerCalls
    /\ \E x \in SamplerReadings :
        LET n == getStableWeight(Cur, x)
            h == Append(smpHist, x)
        IN  /\ Apply(n)
            /\ smpReturn' = stableWeightOf(n, x)
            /\ smpHist' = IF Len(h) > WEIGHT_SAMPLES THEN Tail(h) ELSE h
            /\ smpCalls' = smpCalls + 1
    /\ UNCHANGED <<pc, dosingHist, calHist, saveHist>>

InitializeWeightSampling ==
    /\ smpCalls > 0
    /\ Apply(initializeWeightSampling(Cur))
    /\ smpHist' = << >>
    /\ smpCalls' = 0
    /\ smpReturn' = 0
    /\ UNCHANGED <<pc, dosingHist, calHist, saveHist>>

SamplerNext == GetStableWeight \/ InitializeWeightSampling

SamplerSpec == Init /\ [][SamplerNext]_vars

-----------------------------------------------------------------------------
\* control ticks that come on time or late (a blocking request or scale read)
TareLoopBody == LoopBodyOf({0}, {NoFire}, SteadySamples, TickMs, DivZeroOutcomes)

TareNext == NoRequest \/ CalApiCommand \/ TareLoopBody

TareSpec == CalInit /\ [][TareNext]_vars

-----------------------------------------------------------------------------
(* setPID with every payload, with a factory preset and with the           *)
(* user-defined preset selected, while doses run and settings wait to be   *)
(* saved                                                                   *)

SetPidCommands ==
    {Cmd("start", 0)}
    \cup {Cmd("setMaxWeight", v) : v \in MaxWeightPayloads}
    \cup {Cmd("setViscosity", v) : v \in AbortViscosities}
    \cup {Cmd("setPID", v) : v \in PidPayloads}

SetPidApiCommand == SaveApiCommandOf(SetPidCommands)

SetPidNext == NoRequest \/ SetPidApiCommand \/ LimitLoopBody

SetPidSpec == Init /\ [][SetPidNext]_vars

-----------------------------------------------------------------------------
(* Doses counted: fills that complete, fills with a target of 0, fills     *)
(* that are stopped or cut short, and the statistics reset                 *)

StatsCommands ==
    {Cmd("start", 0), Cmd("stop", 0), Cmd("resetStatistics", 0)}
    \cup {Cmd("setAmount", v) : v \in AmountPayloads}
    \cup {Cmd("setViscosity", v) : v \in ViscosityPayloads}

StatsApiCommand == ApiCommandOf(StatsCommands)

\* the rest of the control tick with the statistics kept, for as long as no
\* more than MaxCycles doses have been counted
StatsLoopBody ==
    /\ pc = "body"
    /\ \E w \in DoseWeights :
        /\ loopBodyStats(Cur, w, NoFire, 0, looptime, "trap").totalDispensingCycles
                <= MaxCycles
        /\ Apply(loopBodyStats(Cur, w, NoFire, 0, looptime, "trap"))
        /\ consec' = IF stateMachine = 1 /\ w >= minGlassWeight
                     THEN Min(consec + 1, GLASS_CONFIRM_COUNT + 1) ELSE 0
        /\ condRun' = IF stateMachine = 3 /\ StopCondition(readWeight(Cur, w))
                      THEN Min(condRun + 1, STOP_CONFIRM_CYCLES + 1) ELSE 0
    /\ pc' = "net"
    /\ prevSM' = stateMachine
    /\ prevCal' = calStateMachine
    /\ lastCmd' = "none"
    /\ lastPid' = NoPayload
    /\ UNCHANGED <<sinceStop, calHist, samplerHist, saveHist>>

StatsNext == NoRequest \/ StatsApiCommand \/ StatsLoopBody

StatsSpec == Init /\ [][StatsNext]_vars

-----------------------------------------------------------------------------
(* Properties *)

restOfProgVars ==
    <<running, pidHistory, output, autoState, cnt, stopConditionCount,
      actualWeight, adjustedWeight, glasWeight, setpoint, desiredAmount,
      maxWeight, minGlassWeight, stopHysteresis, servoMin, servoMax, servoPos,
      servoTestMode, servoTestOutput, servoTestElapsed, gainSelector, kP, Ti, kD,
      pidCoef, pidIntegral, calStateMachine, calFile, calFactor, scaleFactor,
      calSum, calCount, calAveraging, calWeight, reading, tareInProgress,
      tareElapsed, weightSamples, sampleIndex, samplesInitialized, weightSum,
      setpointPI,
      settingsChanged,
      sinceChange,
      totalDispensingCycles,
      historyIndex,
      historyCount>>

\* C1: right after a 'stop' command is handled, in whatever dosing state it
\* was consumed, stateMachine is 4, the PID is stopped and output is 0.
C1_StopReachesIdle ==
    (pc = "body" /\ lastCmd = "stop") =>
        (stateMachine = 4 /\ ~running /\ output = 0)

\* a stop consumed while FILLING
C1_Witness ==
    pc = "body" /\ lastCmd = "stop" /\ prevSM = 3 /\ stateMachine = 4

\* C2 (as claimed): on every tick from the one that consumes 'stop' until a
\* 'start', 'setAuto' or 'servoTest' is consumed, the position written to the
\* servo is servoMin.
C2_StopClosesValve ==
    (pc = "net" /\ sinceStop) => servoPos = servoMin

\* C3 (as claimed): when DETECT_GLASS is left for START_FILL the weight was
\* at or above the threshold on at least 10 consecutive ticks spent in
\* DETECT_GLASS, ending with the confirming tick; a tick in DETECT_GLASS
\* below the threshold leaves the debounce counter at 0.
C3_Debounce ==
    /\ (pc = "net" /\ prevSM = 1 /\ stateMachine = 2) => consec >= GLASS_CONFIRM_COUNT
    /\ (pc = "net" /\ prevSM = 1 /\ actualWeight < minGlassWeight) => cnt = 0

\* C4: in FILLING the dose completes on exactly the tick on which the stop
\* condition has held for 3 consecutive ticks; a shorter run that fails
\* returns the confirmation counter to 0 and the machine stays in FILLING.
C4_FillHysteresis ==
    pc = "net" =>
        /\ (prevSM = 3 /\ stateMachine = 4) <=> (condRun = STOP_CONFIRM_CYCLES)
        /\ condRun <= STOP_CONFIRM_CYCLES
        /\ stateMachine = 3 => stopConditionCount = condRun
        /\ (prevSM = 3 /\ ~StopCondition(Cur)) =>
                (stopConditionCount = 0 /\ stateMachine = 3)

\* target 300, hysteresis 5, adjusted weight 296 on three consecutive ticks
C4_Witness ==
    /\ pc = "net" /\ prevSM = 3 /\ stateMachine = 4
    /\ condRun = STOP_CONFIRM_CYCLES
    /\ setpoint = 300 /\ stopHysteresis = 5 /\ adjustedWeight = 296

C5_Step ==
    stateMachine' # stateMachine =>
        \/ /\ stateMachine = 4 /\ stateMachine' = 1
           /\ \/ pc = "net" /\ lastCmd' = "start"
              \/ pc = "body" /\ autoState /\ actualWeight' < minGlassWeight
        \/ /\ stateMachine = 1 /\ stateMachine' = 2
           /\ pc = "body"
           /\ actualWeight' >= minGlassWeight
           /\ glasWeight' = actualWeight'
        \/ stateMachine = 2 /\ stateMachine' = 3 /\ pc = "body"
        \/ /\ stateMachine = 3 /\ stateMachine' = 4
           /\ pc = "body"
           /\ StopCondition(Cur')
        \/ /\ stateMachine' = 4
           /\ pc = "net"
           /\ lastCmd' \in {"stop", "setViscosity", "setPID"}

\* C5: the dosing state is 4 at boot, always in 1..4, and changes only by
\* 4->1 (start or auto-restart), 1->2 (glass confirmed), 2->3, 3->4 (dose
\* complete) and any->4 (stop or PID re-initialisation).
C5_Transitions ==
    /\ stateMachine = 4
    /\ [](stateMachine \in 1..4)
    /\ [][C5_Step]_vars

\* FILLING entered from START_FILL
C5_Witness ==
    pc = "net" /\ prevSM = 2 /\ stateMachine = 3 /\ running

\* C6: a 'start' consumed in state 1, 2 or 3 changes no program variable;
\* consumed in state 4 it sets the state to 1 and changes nothing else.
C6_StartFrame ==
    [][(pc = "net" /\ lastCmd' = "start") =>
            IF stateMachine = 4
            THEN stateMachine' = 1 /\ UNCHANGED restOfProgVars
            ELSE UNCHANGED progVars]_vars

\* a 'start' consumed while FILLING
C6_Witness ==
    pc = "body" /\ lastCmd = "start" /\ prevSM = 3 /\ stateMachine = 3 /\ running

\* C7: on a tick in state 4, with automatic mode enabled and the weight below
\* the threshold the machine enters state 1 with cnt = 0; otherwise it stays
\* in state 4, and no command but 'start' takes it out of state 4.
C7_AutoRestart ==
    [][/\ (pc = "body" /\ stateMachine = 4) =>
            IF autoState /\ actualWeight' < minGlassWeight
            THEN stateMachine' = 1 /\ cnt' = 0
            ELSE stateMachine' = 4
       /\ (pc = "net" /\ stateMachine = 4 /\ lastCmd' # "start") =>
            stateMachine' = 4]_vars

\* an auto-restart: state 4 left for state 1 by a tick, with no start command
C7_Witness ==
    /\ pc = "net" /\ prevSM = 4 /\ stateMachine = 1
    /\ autoState /\ actualWeight < minGlassWeight /\ cnt = 0

\* C8 (as claimed): right after a 'stop' command both cnt and
\* stopConditionCount are 0.
C8_StopClearsCounters ==
    (pc = "body" /\ lastCmd = "stop") => (cnt = 0 /\ stopConditionCount = 0)

\* C9: stop is idempotent: applying stopSystem to any reachable state twice
\* gives the same program state as applying it once, and the state right
\* after a 'stop' command is left unchanged by another stop.
C9_StopIdempotent ==
    /\ stopSystem(stopSystem(Cur)) = stopSystem(Cur)
    /\ (pc = "body" /\ lastCmd = "stop") => stopSystem(Cur) = Cur

\* a stop consumed in state 4 after an earlier stop or re-initialisation
\* interrupted a glass detection
C9_Witness ==
    pc = "body" /\ lastCmd = "stop" /\ prevSM = 4 /\ cnt > 0 /\ ~autoState

\* C10 (as claimed): the target locked at START_FILL is at least minWeight.
C10_TargetAtLeastMin ==
    (pc = "net" /\ prevSM = 2 /\ stateMachine = 3) => setpoint >= minWeight

\* C11: calStateMachine is always one of 0..4 and changes only 0 -> 1 (a tick,
\* no calibration factor persisted), 0 -> 2 and 1 -> 2 (a 'calibrate'
\* command), 2 -> 3 (a tick, the tare done), 3 -> 4 (a 'calibrate' command)
\* and 4 -> 0 (the tick that takes the last sample).  With a persisted factor
\* state 0 is left only for 2, and 'calibrate' in state 2 or 4 changes
\* nothing.
C11_Step ==
    /\ calStateMachine \in 0..4 /\ calStateMachine' \in 0..4
    /\ calStateMachine' # calStateMachine =>
        \/ /\ calStateMachine = 0 /\ calStateMachine' = 1
           /\ pc = "body" /\ calFile = {}
        \/ /\ calStateMachine \in {0, 1} /\ calStateMachine' = 2
           /\ pc = "net" /\ lastCmd' = "calibrate"
        \/ /\ calStateMachine = 2 /\ calStateMachine' = 3
           /\ pc = "body" /\ tareRun' = tareRun + 1
        \/ /\ calStateMachine = 3 /\ calStateMachine' = 4
           /\ pc = "net" /\ lastCmd' = "calibrate"
        \/ /\ calStateMachine = 4 /\ calStateMachine' = 0
           /\ pc = "body" /\ sampSeen' = calSamples
    /\ (calStateMachine = 0 /\ calFile # {}) => calStateMachine' \in {0, 2}
    /\ (pc = "net" /\ lastCmd' = "calibrate" /\ calStateMachine \in {2, 4}) =>
            UNCHANGED progVars

C11_Transitions == [][C11_Step]_vars

\* 'calibrate' consumed while SAMPLING
C11_Witness ==
    pc = "body" /\ lastCmd = "calibrate" /\ prevCal = 4 /\ calStateMachine = 4

\* C12 (as claimed): SAMPLING takes exactly one raw sample per tick and
\* completes on the tick that takes sample 100; the completing tick stores the
\* average of exactly those samples, persists the factor (that average
\* divided by the reference weight), hands the same factor to the scale and
\* returns to state 0; earlier sampling ticks neither persist nor apply
\* anything, and every run counts and sums from zero.
C12_Step ==
    (pc = "body" /\ calStateMachine = 4) =>
        /\ (calStateMachine' = 0) <=> (sampSeen' = calSamples)
        /\ calStateMachine' = 4 =>
                /\ calCount' = sampSeen' /\ calSum' = sampSum'
                /\ calFile' = calFile /\ scaleFactor' = scaleFactor
        /\ calStateMachine' = 0 =>
                /\ reading' = TruncDiv(sampSum', calSamples)
                /\ calFile' = {scaleFactor'}
                /\ scaleFactor' * calWeight <= reading'
                /\ reading' < (scaleFactor' + 1) * calWeight

C12_Sampling == [][C12_Step]_vars


\* C13 (as claimed): when a run with reference weight R > 0 completes and all
\* of its 100 samples were the same raw0, the factor handed to the scale is
\* raw0 / R, and raw0 divided by that factor is within 1 g of R.
C13_Step ==
    \A raw0 \in RawSamples :
        (/\ pc = "body" /\ calStateMachine = 4 /\ calStateMachine' = 0
         /\ calWeight > 0 /\ sampSum' = calSamples * raw0) =>
            /\ scaleFactor' * calWeight = raw0
            /\ (calWeight - 1) * scaleFactor' <= raw0
            /\ raw0 <= (calWeight + 1) * scaleFactor'

C13_RoundTrip == [][C13_Step]_vars


\* C14 (as claimed): whatever commands were sent, setCalWeight with value 0
\* among them, the reference weight that the completing SAMPLING tick divides
\* by is not zero.
C14_NonzeroDivisor ==
    (pc = "body" /\ calSamplingDone(Cur)) => calWeight # 0


\* C15: while a calibration run is under way (states 2, 3, 4) /cal.txt holds
\* what it held when the run began, so a reboot before SAMPLING completes
\* leaves the persisted factor as it was before the run (or absent); after
\* any reboot the calibration machine is in state 0 and the scale uses the
\* factor of /cal.txt.
C15_Step ==
    /\ calStateMachine \in {2, 3, 4} => calFile = calFileAtStart
    /\ lastCmd' = "reboot" =>
            /\ calFile' = calFile
            /\ calStateMachine' = 0
            /\ \A f \in calFile : scaleFactor' = f
            /\ calFile = {} => calFile' = {} /\ scaleFactor' = 0

C15_Interrupted == [][C15_Step]_vars

\* power lost while SAMPLING in a run that began with factor 101 persisted
C15_Witness ==
    /\ lastCmd = "reboot" /\ prevCal = 4
    /\ calFileAtStart = {101} /\ calFile = {101} /\ scaleFactor = 101
    /\ calStateMachine = 0


\* C16: TARING is left for state 3 only by a tick, exactly the first one on
\* which more than 1000 ms (50 ticks of 20 ms) have passed since the first
\* tick spent in TARING, whether or not a command came; commands do not move
\* the machine out of TARING; the scale is tared on that tick and on no
\* other tick of the run.
C16_Step ==
    /\ (pc = "body" /\ calStateMachine = 2) =>
            /\ (calStateMachine' = 3) <=> (taringMs' > TARE_DELAY_MS)
            /\ calStateMachine' = 3 =>
                    /\ taringMs' >= 50 * looptime
                    /\ tareRun' = 1 /\ scaleFactor' = 1
            /\ calStateMachine' # 3 => calStateMachine' = 2 /\ tareRun' = 0
    /\ (pc = "net" /\ calStateMachine = 2) => calStateMachine' = 2
    /\ calStateMachine = 2 => tareRun = 0
    /\ calStateMachine \in {3, 4} => tareRun = 1
    /\ (calStateMachine = 4 /\ calStateMachine' = 0) => tareRun' = 1

C17_MovingAverage ==
    smpCalls >= WEIGHT_SAMPLES =>
        /\ Len(smpHist) = WEIGHT_SAMPLES
        /\ weightSum = SumSeq(smpHist)
        /\ smpReturn = TruncDiv(SumSeq(smpHist), WEIGHT_SAMPLES)

\* two calls after the buffer wrapped, the last five readings summing to -2
C17_Witness ==
    /\ smpCalls = WEIGHT_SAMPLES + 2
    /\ SumSeq(smpHist) = 0 - 2 /\ smpReturn = 0
    /\ smpHist[1] = 0 - 7 /\ smpHist[2] = 0 - 7

\* C18: after initialisation each of the first N - 1 = 4 calls returns the
\* reading it took; from call 5 on the value returned is weightSum / N.
C18_ColdStart ==
    /\ (smpCalls >= 1 /\ smpCalls <= WEIGHT_SAMPLES - 1) =>
            /\ ~samplesInitialized
            /\ smpReturn = smpHist[Len(smpHist)]
    /\ smpCalls >= WEIGHT_SAMPLES =>
            /\ samplesInitialized
            /\ smpReturn = TruncDiv(weightSum, WEIGHT_SAMPLES)

\* the fourth call returns its reading 32767 although the sum is negative
C18_Witness ==
    /\ smpCalls = WEIGHT_SAMPLES - 1 /\ smpReturn = 32767 /\ weightSum < 0


\* C19 (as claimed): whenever the selected preset has Ti = 0 the controller
\* was initialised without dividing by Ti, with an integral coefficient of
\* zero.
C19_TiZeroSentinel ==
    Ti[gainSelector] = 0 => pidCoef.ki = Fin(0)


\* C20 (as claimed): while the controller runs, after every compute, for any
\* sequence of errors and every selectable preset, the integral term is a
\* number between 0 and 0.5.
C20_AntiWindup ==
    running =>
        /\ pidIntegral.k = "fin"
        /\ pidIntegral.v >= WindUpMin /\ pidIntegral.v <= WindUpMax


\* C21: whenever gainSelector is 1, 2 or 3 the gains of the active preset are
\* its factory constants; a setPID command leaves presets 1..3 as they are
\* and a setViscosity command leaves preset 0 as it is.
C21_Step ==
    /\ \A g \in 1..3 :
            (gainSelector = g \/ gainSelector' = g) =>
                /\ <<kP[g], Ti[g], kD[g]>> = <<FactoryKP[g], FactoryTi[g], FactoryKD[g]>>
                /\ <<kP'[g], Ti'[g], kD'[g]>> = <<FactoryKP[g], FactoryTi[g], FactoryKD[g]>>
    /\ lastCmd' = "setPID" =>
            \A g \in 1..3 : <<kP'[g], Ti'[g], kD'[g]>> = <<kP[g], Ti[g], kD[g]>>
    /\ lastCmd' = "setViscosity" =>
            <<kP'[0], Ti'[0], kD'[0]>> = <<kP[0], Ti[0], kD[0]>>

C21_FactoryPresets == [][C21_Step]_vars

\* preset 3 selected after the user-defined gains were edited to 9, 0, 1
C21_Witness ==
    /\ pc = "body" /\ lastCmd = "setViscosity" /\ gainSelector = 3
    /\ <<kP[0], Ti[0], kD[0]>> = <<9, 0, 1>>
    /\ <<kP[3], Ti[3], kD[3]>> = <<10, 0, 1>>

\* C22 (as claimed): after any sequence of commands, setViscosity with an
\* arbitrary integer payload among them, gainSelector is one of 0..3.
C22_SelectorInRange ==
    gainSelector \in 0..3


\* C23 (as claimed): right after a consumed setViscosity, setServoMin or
\* setServoMax command, or a setPID command accepted because preset 0 is
\* selected, the controller is stopped and holds no integral or derivative
\* history.
C23_ReInit ==
    (/\ pc = "body"
     /\ \/ lastCmd \in {"setViscosity", "setServoMin", "setServoMax"}
        \/ (lastCmd = "setPID" /\ gainSelector = 0)) =>
        (~running /\ ~pidHistory /\ pidIntegral = Fin(0))

\* C26: on every control tick the position written to the servo is
\* servoMin + output * (servoMax - servoMin) with output between 0 and 1;
\* whenever servoMin <= servoMax it lies between servoMin and servoMax.
C26_Step ==
    pc = "body" =>
        /\ output' \in 0..10
        /\ 10 * (servoPos' - servoMin') <= output' * (servoMax' - servoMin')
        /\ output' * (servoMax' - servoMin') < 10 * (servoPos' - servoMin' + 1)
        /\ servoMin' <= servoMax' => (servoMin' <= servoPos' /\ servoPos' <= servoMax')

C24_TenthTick ==
    (pc = "net" /\ prevSM = 1 /\ consec = GLASS_CONFIRM_COUNT) =>
        (stateMachine = 2 /\ glasWeight = actualWeight)

\* the tick taken in START_FILL
C27_Step ==
    /\ (pc = "body" /\ stateMachine = 2) =>
            /\ stateMachine' = 3
            /\ setpoint' = desiredAmount
            /\ setpointPI' = Fin(1000)
            /\ running'
    /\ (pc = "net" /\ stateMachine = 3 /\ lastCmd' = "setAmount") =>
            setpoint' = setpoint

\* C27: START_FILL lasts exactly one tick, which copies the desired amount to
\* the target weight, sets the setpoint ratio to 1.0, starts the controller
\* and moves to FILLING whatever the inputs; a setAmount consumed during
\* FILLING leaves the target of the dose in progress as it is
C27_StartFill == [][C27_Step]_vars

\* the tick that completes a dose
C28_Step ==
    (pc = "body" /\ stateMachine = 3 /\ stateMachine' = 4) =>
        /\ ~running'
        /\ stopConditionCount' = 0
        /\ ~servoTestMode' => (output' = 0 /\ servoPos' = servoMin')

\* C28: on the tick that completes a dose the controller is stopped, the
\* output is 0, the confirmation counter is 0 and the state is 4, so the
\* actuator position written on that tick is already actuatorMin when no
\* servo test is active
C28_CompletionTick == [][C28_Step]_vars

\* a dose completed on three confirming ticks with no servo test active
C28_Witness ==
    /\ pc = "net" /\ prevSM = 3 /\ stateMachine = 4
    /\ condRun = STOP_CONFIRM_CYCLES /\ ~servoTestMode
    /\ ~running /\ output = 0 /\ servoPos = servoMin

\* the tick that confirms the glass, and every other step
C29_Step ==
    /\ (pc = "body" /\ stateMachine = 1 /\ stateMachine' = 2) =>
            (glasWeight' = actualWeight' /\ cnt' = 0)
    /\ glasWeight' # glasWeight =>
            (pc = "body" /\ stateMachine = 1 /\ stateMachine' = 2)

\* C29: on the tick that confirms the glass the glass weight is the stable
\* weight of that tick, the debounce counter is reset to 0 and the state is
\* 2; no other tick and no command changes the glass weight
C29_GlassWeight == [][C29_Step]_vars


\* the weight a tick reads, less the glass weight recorded before the tick
C30_Step ==
    pc = "body" =>
        /\ adjustedWeight' = Max(0, actualWeight' - glasWeight)
        /\ adjustedWeight' >= 0

\* C30: on every tick adjustedWeight is max(0, StableWeight - glassWeight)
\* and is not negative, for every int16 stable weight and every glass weight
\* the machine has recorded: the conversions between int16 and uint16 in the
\* subtraction and in recording the glass weight never wrap around
C30_AdjustedWeight == [][C30_Step]_vars

\* an auto-save write, and the tick taken once the settings have been quiet
C25_Step ==
    /\ burstWrites' > burstWrites =>
            (pc = "body" /\ quietMs >= AUTOSAVE_DELAY /\ ~settingsChanged')
    /\ burstWrites' <= 1
    /\ (pc = "body" /\ quietMs >= AUTOSAVE_DELAY /\ ~burstFlushed) =>
            burstWrites' = 1

C31_TargetNonzero == [][pc = "body" => setpoint' # 0]_vars

\* C32: at the end of every control tick the PID controller is running if
\* and only if the dosing state is FILLING (3); in state 4 the controller is
\* stopped and its history is reset on every tick
C32_RunningIffFilling ==
    pc = "net" =>
        /\ running <=> stateMachine = 3
        /\ stateMachine = 4 =>
                (~running /\ ~pidHistory /\ pidIntegral = Fin(0))

\* a tick in FILLING on which the controller has computed an output
C32_Witness ==
    /\ pc = "net" /\ prevSM = 3 /\ stateMachine = 3
    /\ running /\ pidHistory /\ output = OutHigh

\* C33: a servo test overrides the actuator output only until it times out;
\* from the tick on which it times out the output is the controller's again,
\* which is 0 whenever the dosing state is not FILLING: with no servo test
\* active the valve is closed in every state but FILLING
C33_ClosedAfterServoTest ==
    (pc = "net" /\ ~servoTestMode /\ stateMachine # 3) =>
        (output = 0 /\ servoPos = servoMin)

\* a step of the dosing machine out of state 4
C34_Step == (stateMachine = 4 /\ stateMachine' # 4) => calStateMachine \in {0, 1, 3}

\* C34: calibration never tares the scale or changes its scale factor while
\* a dose is in progress: the calibration machine is in TARING (2) or
\* SAMPLING (4) only while the dosing state is 4, and the dosing state
\* leaves 4 only while the calibration machine is in state 0, 1 or 3
C34_CalibrationInterlock ==
    /\ [](calStateMachine \in {2, 4} => stateMachine = 4)
    /\ [][C34_Step]_vars

\* C35: a stop command disables automatic mode, so after it the machine
\* stays in state 4 on every tick, whatever the weight readings, until a
\* start or setAuto command is consumed
C35_StaysStopped == sinceStop => (stateMachine = 4 /\ ~autoState)

\* a fill was stopped and the glass has been taken off the scale
C35_Witness ==
    /\ pc = "net" /\ sinceStop /\ prevSM = 4 /\ stateMachine = 4
    /\ setpoint = 300 /\ glasWeight = 12 /\ actualWeight = 0

\* C36: re-initialising the controller (setViscosity, or setPID accepted with
\* gainSelector 0) while the dosing state is 1, 2 or 3 aborts the dose:
\* right after the command the dosing state is 4, the controller is stopped,
\* the output is 0, the confirmation counter is 0 and automatic mode is off
C36_ReInitAborts ==
    (/\ pc = "body" /\ prevSM \in 1..3
     /\ \/ lastCmd = "setViscosity"
        \/ lastCmd = "setPID" /\ gainSelector = 0) =>
        /\ stateMachine = 4 /\ ~running /\ output = 0
        /\ stopConditionCount = 0 /\ ~autoState

\* a setPID accepted while a dose was filling in automatic mode
C36_Witness ==
    /\ pc = "body" /\ prevSM = 3 /\ lastCmd = "setPID" /\ gainSelector = 0
    /\ stateMachine = 4 /\ kP[0] = 9 /\ setpoint = 300

\* the step that consumes a setPID; Field is kP[0], Ti[0] or kD[0] after a
\* setPID whose payload has the key or not
C37_Step ==
    LET Field(old, key) == IF key = {} THEN old ELSE CHOOSE x \in key : TRUE
    IN  (pc = "net" /\ lastCmd' = "setPID") =>
            /\ gainSelector # 0 => UNCHANGED progVars
            /\ gainSelector = 0 =>
                /\ kP' = [kP EXCEPT ![0] = Field(@, lastPid'.kp)]
                /\ Ti' = [Ti EXCEPT ![0] = Field(@, lastPid'.ti)]
                /\ kD' = [kD EXCEPT ![0] = Field(@, lastPid'.kd)]

\* C37: a setPID consumed while gainSelector is not 0 changes no gain of any
\* profile, does not re-initialise or stop the controller, does not change
\* the dosing state and writes no settings; with gainSelector 0 only the
\* fields of profile 0 that are present in the payload (kp, ti, kd) change
C37_SetPid == [][C37_Step]_vars

\* a setPID ignored while a factory preset was selected, the controller was
\* running and a changed setting was waiting to be saved
C37_Witness ==
    /\ pc = "body" /\ lastCmd = "setPID" /\ lastPid.kp = {9} /\ lastPid.ti = {}
    /\ gainSelector = 2 /\ kP[0] = 8 /\ running /\ stateMachine = 3
    /\ settingsChanged

\* the tick that completes a dose, every other tick, and every command
C38_Step ==
    LET completes == pc = "body" /\ stateMachine = 3 /\ stateMachine' = 4
    IN  /\ (completes /\ setpoint > 0) =>
                totalDispensingCycles' = totalDispensingCycles + 1
        /\ (~completes /\ lastCmd' # "resetStatistics") =>
                UNCHANGED <<totalDispensingCycles, historyCount, historyIndex>>
        /\ historyCount' = Min(totalDispensingCycles', HISTORY_SIZE)
        /\ historyIndex' \in 0..(HISTORY_SIZE - 1)

\* C38: a completed-dose statistic is recorded exactly once per completed
\* dose and never otherwise: totalDispensingCycles grows by exactly 1 on each
\* tick that completes a dose with a target above 0 and is left as it is by
\* every other tick and by fills ended through stop or re-initialisation; at
\* most 10 history records are kept: historyCount is the number of records
\* since the reset, up to 10, and historyIndex is in 0..9
C38_Statistics == [][C38_Step]_vars

\* the eleventh dose since the reset has been recorded: the ring is full
\* and has wrapped round
C38_Witness ==
    /\ pc = "net" /\ prevSM = 3 /\ stateMachine = 4
    /\ totalDispensingCycles = 11 /\ historyCount = HISTORY_SIZE
    /\ historyIndex = 1

\* C39: after initialisation and after every sampler call weightSum is the
\* sum of all N = 5 slots of the buffer, a slot not yet written counting as
\* 0, and the write cursor is in 0..N-1
C39_RunningSum ==
    /\ weightSum = SumSeq([i \in 1..WEIGHT_SAMPLES |-> weightSamples[i - 1]])
    /\ sampleIndex \in 0..(WEIGHT_SAMPLES - 1)

\* two readings taken since the buffer was initialised: three slots
\* have not been written yet
C39_Witness ==
    /\ smpCalls = 2 /\ ~samplesInitialized /\ sampleIndex = 2
    /\ weightSamples[0] = 32767 /\ weightSamples[1] = 4 /\ weightSamples[2] = 0
    /\ weightSum = 32771

-----------------------------------------------------------------------------
TypeOK ==
    /\ pc \in {"net", "body"}
    /\ stateMachine \in 1..4
    /\ running \in BOOLEAN
    /\ output \in 0..10
    /\ cnt \in 0..GLASS_CONFIRM_COUNT
    /\ stopConditionCount \in 0..(STOP_CONFIRM_CYCLES - 1)
    /\ calStateMachine \in 0..4
    /\ calCount \in 0..calSamples
    /\ sampleIndex \in 0..(WEIGHT_SAMPLES - 1)
    /\ pidIntegral.k \in {"fin", "inf", "nan"}
    /\ settingsChanged \in BOOLEAN
    /\ historyIndex \in 0..(HISTORY_SIZE - 1)
    /\ historyCount \in 0..HISTORY_SIZE
    /\ sinceChange \in 0..AUTOSAVE_DELAY

====
